---------------------------- MODULE Spec2Model ----------------------------
(***************************************************************************)
(* Model of the honeypot log pipeline of seckid/blog (honeypot-stats       *)
(* script): line grammar, file selector, log fetcher, aggregator and the   *)
(* orchestrator loadAndParseLogs.                                          *)
(*                                                                         *)
(* JavaScript strings are TLA+ strings; characters are read with SubSeq,   *)
(* so every pattern of the source is matched character by character.       *)
(* JavaScript null is the reserved value null below; a property that is    *)
(* undefined is a field missing from the record's domain.                  *)
(***************************************************************************)
EXTENDS Naturals, Sequences, FiniteSets, TLC

(***************************************************************************)
(* Strings                                                                 *)
(***************************************************************************)

\* JavaScript null: a value no string of the inputs is equal to.
null == "<null>"

\* The character of s at 1-based position i ("" past either end).
Char(s, i) == IF i >= 1 /\ i <= Len(s) THEN SubSeq(s, i, i) ELSE ""

Min(a, b) == IF a <= b THEN a ELSE b

\* The position of the first character c of s at or after position i (0 when
\* there is none).
RECURSIVE FirstAt(_, _, _)
FirstAt(s, c, i) ==
  IF i > Len(s) THEN 0
  ELSE IF Char(s, i) = c THEN i
  ELSE FirstAt(s, c, i + 1)

\* Position of character c in the string table (0 when it is not in it).
IndexIn(table, c) == FirstAt(table, c, 1)

UpperCase == "ABCDEFGHIJKLMNOPQRSTUVWXYZ"
LowerCase == "abcdefghijklmnopqrstuvwxyz"
DecimalDigits == "0123456789"

\* UTF-16 code unit of a character, for the characters file names are made of.
Code(c) ==
  IF IndexIn(DecimalDigits, c) > 0 THEN 47 + IndexIn(DecimalDigits, c)
  ELSE IF IndexIn(UpperCase, c) > 0 THEN 64 + IndexIn(UpperCase, c)
  ELSE IF IndexIn(LowerCase, c) > 0 THEN 96 + IndexIn(LowerCase, c)
  ELSE IF c = " " THEN 32
  ELSE IF c = "-" THEN 45
  ELSE IF c = "." THEN 46
  ELSE IF c = "_" THEN 95
  ELSE 0

\* \d of a regular expression.
IsDigit(c) == c \in {"0", "1", "2", "3", "4", "5", "6", "7", "8", "9"}

\* \s of a regular expression, and the characters String.prototype.trim removes.
IsSpace(c) == c \in {" ", "\t", "\n", "\r", "\f"}

\* The characters the regular expression dot does not match.
IsLineTerminator(c) == c \in {"\n", "\r"}

\* s.slice(k): the characters of s from 0-based index k on.
SliceFrom(s, k) == IF k >= Len(s) THEN "" ELSE SubSeq(s, k + 1, Len(s))

\* s.slice(0, k): the first k characters of s (all of s when it is shorter).
SliceTo(s, k) == SubSeq(s, 1, Min(k, Len(s)))

\* Whether pattern p occurs in s at 1-based position i.
MatchesAt(s, p, i) ==
  /\ i >= 1
  /\ i + Len(p) - 1 <= Len(s)
  /\ SubSeq(s, i, i + Len(p) - 1) = p

\* s.startsWith(p)
StartsWith(s, p) == MatchesAt(s, p, 1)

\* s.includes(p)
Includes(s, p) == \E i \in 1..(Len(s) + 1) : MatchesAt(s, p, i)

\* The least element of a non-empty set of naturals.
Least(S) == CHOOSE i \in S : \A j \in S : i <= j

\* The end (exclusive, 1-based) of the longest run of characters in class
\* starting at position i of s.
RECURSIVE RunEnd(_, _, _)
RunEnd(s, i, class) ==
  IF i <= Len(s) /\ Char(s, i) \in class THEN RunEnd(s, i + 1, class) ELSE i

Digits == {"0", "1", "2", "3", "4", "5", "6", "7", "8", "9"}
Spaces == {" ", "\t", "\n", "\r", "\f"}

\* The start (1-based) of the longest run of characters in class that ends
\* right before position i + 1 of s, less one: the last position at or before
\* i whose character is not in class (0 when there is none).
RECURSIVE RunStart(_, _, _)
RunStart(s, i, class) ==
  IF i >= 1 /\ Char(s, i) \in class THEN RunStart(s, i - 1, class) ELSE i

\* s.trim(): s without its leading and trailing whitespace.
Trim(s) ==
  LET first == RunEnd(s, 1, Spaces)
  IN  IF first > Len(s) THEN ""
      ELSE SubSeq(s, first, RunStart(s, Len(s), Spaces))

\* s.split(sep) for a separator of one character: the pieces between separators.
RECURSIVE SplitChar(_, _)
SplitChar(s, sep) ==
  LET n == FirstAt(s, sep, 1)
  IN  IF n = 0 THEN <<s>>
      ELSE <<SubSeq(s, 1, n - 1)>> \o SplitChar(SliceFrom(s, n), sep)

\* parts.join(sep)
RECURSIVE Join(_, _)
Join(parts, sep) ==
  IF Len(parts) = 0 THEN ""
  ELSE IF Len(parts) = 1 THEN parts[1]
  ELSE parts[1] \o sep \o Join(Tail(parts), sep)

\* text.split(/\r?\n/): the lines of a text; a carriage return right before a
\* line feed belongs to the separator.
RECURSIVE SplitLines(_)
SplitLines(text) ==
  LET n == FirstAt(text, "\n", 1)
      stop == IF n > 1 /\ Char(text, n - 1) = "\r" THEN n - 2 ELSE n - 1
  IN  IF n = 0 THEN <<text>>
      ELSE <<SubSeq(text, 1, stop)>> \o SplitLines(SliceFrom(text, n))

\* a < b in the order of String comparison (code units, a proper prefix first).
RECURSIVE StrLess(_, _)
StrLess(a, b) ==
  IF Len(b) = 0 THEN FALSE
  ELSE IF Len(a) = 0 THEN TRUE
  ELSE IF Char(a, 1) = Char(b, 1) THEN StrLess(SliceFrom(a, 1), SliceFrom(b, 1))
  ELSE Code(Char(a, 1)) < Code(Char(b, 1))

StrLeq(a, b) == a = b \/ StrLess(a, b)

\* A JavaScript value used as a condition: null and "" are falsy.
Truthy(s) == s # null /\ s # ""

(***************************************************************************)
(* Line Parser                                                             *)
(***************************************************************************)

\* /^(\d{4}-\d{2}-\d{2})/ matches s.
HasDatePrefix(s) ==
  /\ Len(s) >= 10
  /\ \A i \in {1, 2, 3, 4, 6, 7, 9, 10} : IsDigit(Char(s, i))
  /\ Char(s, 5) = "-"
  /\ Char(s, 8) = "-"

\* The end (exclusive) of the match of /^\s*\(\s*['"]?[\d.]+['"]?\s*,\s*\d+\)\s*/
\* in s, 0 when the pattern does not match.  Each piece of the pattern is
\* followed by a character outside its own class, so the greedy match is the
\* only one.
AddrPrefixEnd(s) ==
  LET quotes == {"'", "\""}
      open == RunEnd(s, 1, Spaces)
      q1 == RunEnd(s, open + 1, Spaces)
      ip == IF Char(s, q1) \in quotes THEN q1 + 1 ELSE q1
      q2 == RunEnd(s, ip, Digits \cup {"."})
      sp == IF Char(s, q2) \in quotes THEN q2 + 1 ELSE q2
      comma == RunEnd(s, sp, Spaces)
      port == RunEnd(s, comma + 1, Spaces)
      close == RunEnd(s, port, Digits)
  IN  IF /\ Char(s, open) = "("
         /\ q2 > ip
         /\ Char(s, comma) = ","
         /\ close > port
         /\ Char(s, close) = ")"
      THEN RunEnd(s, close + 1, Spaces)
      ELSE 0

\* Mutant: the address prefix is left in place.
stripAddrPrefixSkipped(s) == IF s = "" THEN s ELSE Trim(s)

\* stripAddrPrefix: the message without a leading (ip, port) tuple, trimmed.
stripAddrPrefix(s) ==
  LET end == AddrPrefixEnd(s)
  IN  IF s = "" THEN s
      ELSE IF end = 0 THEN Trim(s)
      ELSE Trim(SliceFrom(s, end - 1))

LoginMarker == "LOGIN username="
PasswordMarker == " password="

\* message.match(/LOGIN username=(.+?) password=(.*)$/): <<>> when there is no
\* match, else <<group 1, group 2>>.  The match starts at the leftmost marker
\* that has a match, the lazy group 1 ends at the first " password=" at least
\* one character after it, and neither group holds a line terminator.
LoginMatch(message) ==
  LET n == Len(message)
      NoTerminator(a, b) == \A k \in a..b : ~IsLineTerminator(Char(message, k))
      Ok(i, j) ==
        /\ MatchesAt(message, LoginMarker, i)
        /\ j >= i + Len(LoginMarker) + 1
        /\ MatchesAt(message, PasswordMarker, j)
        /\ NoTerminator(i + Len(LoginMarker), j - 1)
        /\ NoTerminator(j + Len(PasswordMarker), n)
      starts == {i \in 1..n : MatchesAt(message, LoginMarker, i) /\ \E j \in i..n : Ok(i, j)}
  IN  IF starts = {} THEN <<>>
      ELSE LET i == Least(starts)
               j == Least({k \in i..n : Ok(i, k)})
           IN  << SubSeq(message, i + Len(LoginMarker), j - 1),
                  SliceFrom(message, j + Len(PasswordMarker) - 1) >>

\* eventType.slice(4).split(/\s/)[0]: the path token after "GET ".
GetPath(eventType) ==
  LET rest == SliceFrom(eventType, 4)
  IN  SubSeq(rest, 1, RunEnd(rest, 1, {Char(rest, k) : k \in 1..Len(rest)} \ Spaces) - 1)

\* The positions where /CVE-\d{4}-\d+/ matches in s.
CveStarts(s) ==
  {i \in 1..Len(s) :
     /\ MatchesAt(s, "CVE-", i)
     /\ \A k \in (i + 4)..(i + 7) : IsDigit(Char(s, k))
     /\ Char(s, i + 8) = "-"
     /\ IsDigit(Char(s, i + 9))}

\* s.match(/CVE-\d{4}-\d+/)[0]: the first CVE identifier in s.
CveMatch(s) ==
  LET i == Least(CveStarts(s))
  IN  SubSeq(s, i, RunEnd(s, i + 9, Digits) - 1)

\* Mutant: the GET test comes before the LOGIN test.
ClassifyMessageGetFirst(message) ==
  IF StartsWith(message, "GET ")
    THEN "GET " \o (IF GetPath(message) # "" THEN GetPath(message) ELSE "/")
  ELSE IF Includes(message, LoginMarker) THEN "LOGIN"
  ELSE IF CveStarts(message) # {} THEN CveMatch(message)
  ELSE message

\* The event type of an address-stripped message (the if/else chain of the
\* fortipot grammar, before the "other" default).
ClassifyMessage(message) ==
  IF Includes(message, LoginMarker) THEN "LOGIN"
  ELSE IF StartsWith(message, "GET ")
    THEN LET path == GetPath(message)
         IN  "GET " \o (IF path # "" THEN path ELSE "/")
  ELSE IF CveStarts(message) # {} THEN CveMatch(message)
  ELSE message

\* A parser's null return.
nullEvent == [isNull |-> TRUE]

\* Mutant: one more field is required.
MinFieldsOneMore == 4 + 1

\* The number of pipe-separated fields a fortipot line must have.
MinFields == 4

\* LOG_PARSERS.fortipot
fortipot(line) ==
  LET parts == SplitChar(line, "|")
      ts == Trim(parts[1])
      ip == Trim(parts[3])
      rawMessage == Trim(Join(SubSeq(parts, 4, Len(parts)), "|"))
      message == stripAddrPrefix(rawMessage)
      date == IF HasDatePrefix(ts) THEN SliceTo(ts, 10) ELSE null
      eventType == ClassifyMessage(message)
      loginMatch == IF Includes(message, LoginMarker) THEN LoginMatch(message) ELSE <<>>
      out == [date |-> date, ip |-> ip,
              eventType |-> IF Truthy(eventType) THEN eventType ELSE "other",
              ts |-> ts]
  IN  IF Len(parts) < MinFields THEN nullEvent
      ELSE IF loginMatch # <<>>
        THEN out @@ [loginUsername |-> Trim(loginMatch[1]),
                     loginPassword |-> Trim(loginMatch[2])]
      ELSE out

\* The honeypot types LOG_PARSERS declares.
HoneypotTypes == {"fortipot", "ssh", "rdp", "ftp"}

\* Mutant: every type is parsed with the fortipot grammar.
ParserFortipotForAll(honeypotType, line) == fortipot(line)

\* LOG_PARSERS[honeypotType] || LOG_PARSERS.fortipot, applied to a line.
Parser(honeypotType, line) ==
  IF honeypotType \in {"ssh", "rdp", "ftp"} THEN nullEvent
  ELSE fortipot(line)

\* Mutant: empty lines are not skipped.
GrammarInputsWithEmpty(text) ==
  LET lines == SplitLines(text)
  IN  [i \in 1..Len(lines) |-> Trim(lines[i])]

\* The lines parseLogLines hands to the parser: the trimmed lines of the text
\* that are not empty, in order.
GrammarInputs(text) ==
  LET lines == SplitLines(text)
      trimmed == [i \in 1..Len(lines) |-> Trim(lines[i])]
  IN  SelectSeq(trimmed, LAMBDA t : t # "")

\* Whether parseLogLines keeps what the parser returned.
Kept(parsed) == parsed # nullEvent

\* parseLogLines
parseLogLines(text, honeypotType) ==
  LET inputs == GrammarInputs(text)
      parsed == [i \in 1..Len(inputs) |-> Parser(honeypotType, inputs[i])]
  IN  SelectSeq(parsed, Kept)

(***************************************************************************)
(* Aggregator                                                              *)
(***************************************************************************)

\* An object used as a tally, with no key yet.
EmptyTally == [k \in {} |-> 0]

\* tally[key] = (tally[key] || 0) + 1
Increment(tally, key) ==
  IF key \in DOMAIN tally THEN [tally EXCEPT ![key] = @ + 1]
  ELSE [k \in DOMAIN tally \cup {key} |-> IF k = key THEN 1 ELSE tally[k]]

\* Mutant: a credential pair counts only when neither part is empty.
HasCredentialNonEmpty(e) ==
  /\ "loginUsername" \in DOMAIN e
  /\ "loginPassword" \in DOMAIN e
  /\ Truthy(e.loginUsername)
  /\ Truthy(e.loginPassword)

\* Mutant: every LOGIN event counts as carrying a credential pair.
HasCredentialByType(e) == e.eventType = "LOGIN"

\* e.loginUsername !== undefined || e.loginPassword !== undefined
HasCredential(e) == "loginUsername" \in DOMAIN e \/ "loginPassword" \in DOMAIN e

\* The record aggregate pushes for an event that carries a credential pair.
LoginAttempt(e) ==
  [ts |-> e.ts, date |-> e.date, ip |-> e.ip,
   username |-> IF "loginUsername" \in DOMAIN e /\ e.loginUsername # null
                THEN e.loginUsername ELSE "",
   password |-> IF "loginPassword" \in DOMAIN e /\ e.loginPassword # null
                THEN e.loginPassword ELSE ""]

\* loginAttempts after one more event.
PushLogin(loginAttempts, e) ==
  IF HasCredential(e) THEN Append(loginAttempts, LoginAttempt(e)) ELSE loginAttempts

\* The key of byEvent an event counts under.
EventKey(e) == IF Truthy(e.eventType) THEN e.eventType ELSE "other"

\* Mutant: an event without a date is not counted by type.
CountEventDated(byEvent, e) ==
  IF Truthy(e.date) THEN Increment(byEvent, EventKey(e)) ELSE byEvent

\* byEvent after one more event.
CountEvent(byEvent, e) == Increment(byEvent, EventKey(e))

\* Mutant: an event without a date is not counted by address.
CountIpDated(byIp, e) ==
  IF Truthy(e.date) /\ Truthy(e.ip) THEN Increment(byIp, e.ip) ELSE byIp

\* byIp after one more event.
CountIp(byIp, e) == IF Truthy(e.ip) THEN Increment(byIp, e.ip) ELSE byIp

\* byDate after one more event.
CountDate(byDate, e) == IF Truthy(e.date) THEN Increment(byDate, e.date) ELSE byDate

\* One iteration of the loop of aggregate.
AggregateStep(acc, e) ==
  [byDate |-> CountDate(acc.byDate, e),
   byIp |-> CountIp(acc.byIp, e),
   byEvent |-> CountEvent(acc.byEvent, e),
   loginAttempts |-> PushLogin(acc.loginAttempts, e)]

\* The tallies after the loop of aggregate has run over entries.
RECURSIVE AggregateLoop(_)
AggregateLoop(entries) ==
  IF Len(entries) = 0
  THEN [byDate |-> EmptyTally, byIp |-> EmptyTally, byEvent |-> EmptyTally,
        loginAttempts |-> <<>>]
  ELSE AggregateStep(AggregateLoop(SubSeq(entries, 1, Len(entries) - 1)),
                     entries[Len(entries)])

\* aggregate
aggregate(entries) ==
  LET acc == AggregateLoop(entries)
  IN  [byDate |-> acc.byDate, byIp |-> acc.byIp, byEvent |-> acc.byEvent,
       total |-> Len(entries), loginAttempts |-> acc.loginAttempts]

(***************************************************************************)
(* File Selector                                                           *)
(***************************************************************************)

\* /^\d{4}-\d{2}-\d{2}_.*\.log$/.test(name)
IsLogFileName(name) ==
  /\ Len(name) >= 15
  /\ HasDatePrefix(name)
  /\ Char(name, 11) = "_"
  /\ SubSeq(name, Len(name) - 3, Len(name)) = ".log"
  /\ \A k \in 12..(Len(name) - 4) : ~IsLineTerminator(Char(name, k))

\* The entries of a listing that listLogFiles keeps.
IsLogFile(f) == f.type = "file" /\ IsLogFileName(f.name)

\* Array.prototype.sort with the default comparison: insert x into a sorted
\* sequence of strings, after the elements that are not greater.
RECURSIVE Insert(_, _)
Insert(sorted, x) ==
  IF Len(sorted) = 0 THEN <<x>>
  ELSE IF StrLess(x, Head(sorted)) THEN <<x>> \o sorted
  ELSE <<Head(sorted)>> \o Insert(Tail(sorted), x)

RECURSIVE Sort(_)
Sort(names) ==
  IF Len(names) = 0 THEN <<>>
  ELSE Insert(Sort(SubSeq(names, 1, Len(names) - 1)), names[Len(names)])

\* The names listLogFiles returns for the array data of a listing response.
LogFilesOf(data) ==
  LET kept == SelectSeq(data, IsLogFile)
  IN  Sort([i \in 1..Len(kept) |-> kept[i].name])

\* Date.prototype.toISOString: a Date is modelled by its instant written in
\* ISO form, YYYY-MM-DDTHH:mm:ss.sssZ.
toISOString(date) == date

\* Mutant: the end of the window is exclusive.
InDateRangeEndExclusive(f, startStr, endStr) ==
  StrLeq(startStr, SliceTo(f, 10)) /\ StrLess(SliceTo(f, 10), endStr)

\* The test of the filter of filterFilesByDate.
InDateRange(f, startStr, endStr) ==
  StrLeq(startStr, SliceTo(f, 10)) /\ StrLeq(SliceTo(f, 10), endStr)

\* filterFilesByDate
filterFilesByDate(files, dateRange) ==
  LET startStr == SliceTo(toISOString(dateRange.start), 10)
      endStr == SliceTo(toISOString(dateRange.end), 10)
  IN  SelectSeq(files, LAMBDA f : InDateRange(f, startStr, endStr))

(***************************************************************************)
(* Inputs                                                                  *)
(***************************************************************************)

\* The longest listing the remote store answers with.
MaxFiles == 3

\* The most pieces a generated message is made of.
MaxPieces == 3

\* The entries a listing of the folder may hold: three dated log files, a
\* file whose name is no log file name, and a directory named like a log file.
ListingPool ==
  { [type |-> "file", name |-> "2026-02-17_fortipot.log"],
    [type |-> "file", name |-> "2026-02-18_fortipot.log"],
    [type |-> "file", name |-> "2026-02-19_fortipot.log"],
    [type |-> "file", name |-> "not-a-date.log"],
    [type |-> "dir", name |-> "2026-02-18_archive.log"] }

\* The arrays a listing response may carry: the entries in any order, none twice.
Listings ==
  UNION { { d \in [1..n -> ListingPool] : \A i, j \in 1..n : d[i] = d[j] => i = j }
          : n \in 0..MaxFiles }

\* The date windows of a run: from "all time" or from a day, to a day.
DateRanges ==
  { [start |-> a, end |-> b] :
      a \in {"2000-01-01T00:00:00.000Z", "2026-02-18T09:30:00.000Z"},
      b \in {"2026-02-18T09:30:00.000Z", "2026-02-19T23:59:59.999Z"} }

\* The bodies a log file may have: two logins (the second with an empty
\* password); noise, blank lines and one request, with CRLF line ends; a
\* login without a password part and an undated line; an empty file.
FileTexts ==
  { "2026-02-18T00:00:01|INFO|1.2.3.4|LOGIN username=admin password=1234\n2026-02-18T00:00:02|INFO|5.6.7.8|LOGIN username=root password=\n",
    "garbage\r\n\r\n   \r\n2026-02-18T00:00:03|INFO|1.2.3.4|GET /x HTTP/1.1",
    "bad-ts|WARN||LOGIN username=guest\n2026-02-19T00:00:04|INFO|9.9.9.9|('5.6.7.8', 443) LOGIN username=guest password=guest",
    "" }

\* The statuses of a response that is not ok.
ErrorStatuses == {403, 404}

\* The status of a content response that is not ok (fetchLogContent reads
\* no more of it than that it is not ok).
ContentErrorStatuses == {404}

\* The pieces generated messages are concatenated from.
Pieces ==
  {"GET", " ", "LOGIN username=", " password=", "CVE-2023-1234", "/x",
   "('5.6.7.8', 443)", "|"}

\* The messages made of at most n pieces.
RECURSIVE MessagesUpTo(_)
MessagesUpTo(n) ==
  IF n = 0 THEN {""}
  ELSE LET shorter == MessagesUpTo(n - 1)
       IN  shorter \cup {m \o p : m \in shorter, p \in Pieces}

\* What a generated line starts with: timestamp, level and address; the same
\* without a date and an address; and only two fields.
LineHeads == {"2026-02-18T00:00:00|INFO|1.2.3.4|", "yesterday|WARN||", "2026-02-18T00:00:00|1.2.3.4|"}

\* Lines written by hand: the examples of the grammar, two identifiers in one
\* message, a message with a pipe in it, a message every test of the
\* classification accepts, lines whose timestamp has no date prefix, messages
\* behind an address prefix of each shape and behind two prefixes, and lines
\* with fewer than four fields.
ExtraLines ==
  { "2026-02-18T00:00:00|INFO|1.2.3.4|LOGIN username=admin password=1234",
    "2026-02-18T00:00:00|INFO|1.2.3.4|GET /api/v1/users HTTP/1.1",
    "2026-02-18T00:00:00|INFO|1.2.3.4|exploit attempt CVE-2023-1234 detected",
    "2026-02-18T00:00:00|INFO|1.2.3.4|probe CVE-2021-44228 then CVE-2023-1234",
    "2026-02-18T00:00:00|INFO|1.2.3.4|LOGIN username=a|b password=c|d",
    "2026-02-18T00:00:00|INFO|1.2.3.4|LOGIN username=root",
    "2026-02-18T00:00:00|INFO|1.2.3.4|GET /CVE-2023-1234 LOGIN username=x",
    "yesterday|WARN|9.9.9.9|GET /x",
    "2026-02-18T00:00:00|INFO|1.2.3.4|('5.6.7.8', 443) GET /x",
    "2026-02-18T00:00:00|INFO|1.2.3.4|(5.6.7.8, 443) probe CVE-2023-1234 now",
    "2026-02-18T00:00:00|INFO|1.2.3.4|(\"5.6.7.8\", 443) LOGIN username=admin password=1234",
    "2026-02-18T00:00:00|INFO|1.2.3.4|('5.6.7.8', 443) ('5.6.7.8', 443) GET /x",
    "|INFO|9.9.9.9|LOGIN username=admin password=1234",
    "18-02-2026T00:00:00|INFO|9.9.9.9|probe",
    "|||",
    "garbage",
    "2026-02-18T00:00:00|INFO|1.2.3.4" }

\* parseLogLines hands the grammar trimmed lines that are not empty.
IsGrammarInput(l) == l # "" /\ Trim(l) = l

\* The lines the grammar is run on.
Lines ==
  {l \in {h \o m : h \in LineHeads, m \in MessagesUpTo(MaxPieces)} \cup ExtraLines :
     IsGrammarInput(l)}

(***************************************************************************)
(* State                                                                   *)
(***************************************************************************)

VARIABLES
  pc,          \* where loadAndParseLogs stands: idle, listing, fetching, done, failed
  dateRange,   \* the dateRange argument of the run
  filtered,    \* the file names filterFilesByDate returned
  index,       \* the position in filtered of the file being fetched
  allEntries,  \* the events pushed so far
  result,      \* the value loadAndParseLogs returned
  error,       \* the message of the error loadAndParseLogs threw
  requests,    \* the requests sent to the remote store, in order
  responses,   \* what the remote store answered, in order
  grammarCalls,\* the lines handed to the parser during the run, in order
  honeypotType,\* the value of the honeypot-type select when runStats read it
  remote,      \* the remote store: answering, or silent (it answers no more)
  chartDefined,\* whether the Chart.js script has loaded (typeof Chart)
  statsError,  \* whether the panel stats-error is visible
  statsContent,\* whether the panel stats-content is visible
  statsLoading,\* whether the panel stats-loading is visible
  errorHtml,   \* the kind of message written into stats-error last
  loadBtnDisabled, \* the disabled property of the button load-stats
  line,        \* grammar check: the line given to the grammar
  parsed,      \* grammar check: what the grammar returned for it
  lineStats,   \* grammar check: aggregate of the events parsed from the line
  otherParsed, \* grammar check: what a type other than fortipot made of the line
  now,         \* request check: the value Date.now() returns
  issued,      \* request check: the URLs requested so far, in order
  cachedStats, \* dashboard: _cachedStats
  fromCache,   \* dashboard: loadBtn._fromCache
  days,        \* dashboard: the value of the date-range select
  dashPc,      \* dashboard: unloaded, idle, or fetching (runStats awaits fetchStats)
  runDays,     \* dashboard: the constant days of the runStats call that is waiting
  fetchCount,  \* dashboard: the number of calls of fetchStats so far
  frames,      \* dashboard: the animation frame callbacks that wait, in order
  renders,     \* dashboard: the arguments of the calls of renderAll, in order
  userEvents   \* dashboard: the clicks and date-range changes so far, in order

pipelineVars ==
  <<pc, dateRange, filtered, index, allEntries, result, error, requests, responses,
    grammarCalls, honeypotType, remote>>
pageVars == <<chartDefined, statsError, statsContent, statsLoading, errorHtml, loadBtnDisabled>>
grammarVars == <<line, parsed, lineStats, otherParsed>>
cacheVars == <<now, issued>>
dashVars ==
  <<cachedStats, fromCache, days, dashPc, runDays, fetchCount, frames, renders, userEvents>>
vars == <<pipelineVars, pageVars, grammarVars, cacheVars, dashVars>>

\* No value yet: a run that has not returned, a line that has not been parsed.
pending == [isPending |-> TRUE]

\* The folder runStats reads.
Folder == "fortipot"

(***************************************************************************)
(* Log Fetcher and Pipeline Orchestrator                                   *)
(***************************************************************************)

\* The request of listLogFiles.
ListRequest(folder) == [op |-> "list", folder |-> folder, name |-> ""]

\* The request of fetchLogContent.
ContentRequest(folder, filename) == [op |-> "content", folder |-> folder, name |-> filename]

\* Mutant: the error does not name the status.
ListErrorWithoutStatus(folder, status) == "Failed to list " \o folder

\* The message of the error listLogFiles throws for a response that is not ok.
ListError(folder, status) == "Failed to list " \o folder \o ": " \o ToString(status)

\* What fetchLogContent returns for a response.
ContentOf(response) ==
  IF ~response.ok THEN ""
  ELSE IF response.bodyFails THEN ""
  ELSE response.text

\* The messages runStats writes into stats-error (their first sentence).
UnsupportedMessage == "Only FortiPot logs are available at the moment."
NoEntriesMessage == "No log entries found for the selected period."
ChartMessage == "Chart.js failed to load. Check your connection or try disabling ad blockers."

\* Mutant: every declared type is taken for one with logs.
IsSupportedAny(t) == TRUE

\* honeypotType === 'fortipot', the test runStats starts with.
IsSupported(t) == t = "fortipot"

\* runStats up to its try: no error, no content, the loading indicator, the
\* button disabled.
PageAtStart ==
  /\ statsError' = FALSE
  /\ statsContent' = FALSE
  /\ statsLoading' = TRUE
  /\ loadBtnDisabled' = TRUE
  /\ UNCHANGED <<errorHtml, chartDefined>>

\* runStats after loadAndParseLogs returned stats: the indicator goes, the
\* button is enabled, and the content is shown, or the message that there are
\* no entries.  (The charts runStats then draws in two animation frames are
\* the rendering layer's and are not part of this model.)
PageAfterReturn(stats) ==
  /\ statsLoading' = FALSE
  /\ loadBtnDisabled' = FALSE
  /\ IF stats.total = 0
     THEN /\ statsError' = TRUE
          /\ errorHtml' = NoEntriesMessage
          /\ statsContent' = statsContent
     ELSE /\ statsContent' = TRUE
          /\ UNCHANGED <<statsError, errorHtml>>
  /\ UNCHANGED chartDefined

\* Mutant: the catch leaves the button as it is.
PageAfterThrowButtonKept(message) ==
  /\ statsLoading' = FALSE
  /\ UNCHANGED loadBtnDisabled
  /\ statsError' = TRUE
  /\ errorHtml' = "Error: " \o message
  /\ UNCHANGED <<statsContent, chartDefined>>

\* The catch of runStats.
PageAfterThrow(message) ==
  /\ statsLoading' = FALSE
  /\ loadBtnDisabled' = FALSE
  /\ statsError' = TRUE
  /\ errorHtml' = "Error: " \o message
  /\ UNCHANGED <<statsContent, chartDefined>>

\* Mutant: the new entries go in front of the ones pushed before.
PushAllInFront(entries, more) == more \o entries

\* allEntries.push(...entries)
PushAll(entries, more) == entries \o more

\* The body of the loop of loadAndParseLogs after fetchLogContent returned text,
\* and what follows it: the fetch of the next file, or the return of aggregate.
AfterContent(text) ==
  /\ allEntries' = PushAll(allEntries, parseLogLines(text, Folder))
  /\ grammarCalls' = grammarCalls \o GrammarInputs(text)
  /\ IF index < Len(filtered)
     THEN /\ index' = index + 1
          /\ requests' = Append(requests, ContentRequest(Folder, filtered[index + 1]))
          /\ pc' = "fetching"
          /\ result' = result
          /\ UNCHANGED pageVars
     ELSE /\ index' = index
          /\ requests' = requests
          /\ pc' = "done"
          /\ result' = aggregate(allEntries')
          /\ PageAfterReturn(result')

\* runStats calls loadAndParseLogs('fortipot', dateRange): listLogFiles sends
\* its request and waits.
StartRun ==
  /\ pc = "idle"
  /\ chartDefined
  /\ \E t \in HoneypotTypes : IsSupported(t) /\ honeypotType' = t
  /\ PageAtStart
  /\ \E r \in DateRanges : dateRange' = r
  /\ requests' = Append(requests, ListRequest(Folder))
  /\ pc' = "listing"
  /\ UNCHANGED <<filtered, index, allEntries, result, error, responses, grammarCalls>>
  /\ UNCHANGED <<remote, grammarVars, cacheVars, dashVars>>

\* runStats with a honeypot type other than fortipot: the message that only
\* FortiPot logs are available, and return.
RunUnsupported ==
  /\ pc = "idle"
  /\ \E t \in HoneypotTypes : ~IsSupported(t) /\ honeypotType' = t
  /\ statsContent' = FALSE
  /\ statsLoading' = FALSE
  /\ statsError' = TRUE
  /\ errorHtml' = UnsupportedMessage
  /\ pc' = "unsupported"
  /\ UNCHANGED <<chartDefined, loadBtnDisabled>>
  /\ UNCHANGED <<dateRange, filtered, index, allEntries, result, error, requests,
                 responses, grammarCalls>>
  /\ UNCHANGED <<remote, grammarVars, cacheVars, dashVars>>

\* runStats when Chart.js has not loaded: it throws before it calls
\* loadAndParseLogs, and its catch shows the error.
RunWithoutChart ==
  /\ pc = "idle"
  /\ ~chartDefined
  /\ \E t \in HoneypotTypes : IsSupported(t) /\ honeypotType' = t
  /\ statsContent' = FALSE
  /\ statsLoading' = FALSE
  /\ loadBtnDisabled' = FALSE
  /\ statsError' = TRUE
  /\ errorHtml' = "Error: " \o ChartMessage
  /\ UNCHANGED chartDefined
  /\ error' = ChartMessage
  /\ pc' = "failed"
  /\ UNCHANGED <<dateRange, filtered, index, allEntries, result, requests,
                 responses, grammarCalls>>
  /\ UNCHANGED <<remote, grammarVars, cacheVars, dashVars>>

\* The listing arrives as an array: listLogFiles returns the sorted log file
\* names, the names are filtered by date and the first file is requested; with
\* no file in the window the run returns the aggregate of nothing.
ListOk ==
  /\ pc = "listing"
  /\ remote = "answering"
  /\ \E data \in Listings :
       /\ responses' = Append(responses, [op |-> "list", ok |-> TRUE, data |-> data])
       /\ filtered' = filterFilesByDate(LogFilesOf(data), dateRange)
  /\ allEntries' = <<>>
  /\ IF Len(filtered') > 0
     THEN /\ index' = 1
          /\ requests' = Append(requests, ContentRequest(Folder, filtered'[1]))
          /\ pc' = "fetching"
          /\ result' = result
          /\ UNCHANGED pageVars
     ELSE /\ index' = index
          /\ requests' = requests
          /\ pc' = "done"
          /\ result' = aggregate(allEntries')
          /\ PageAfterReturn(result')
  /\ UNCHANGED <<dateRange, error, grammarCalls>>
  /\ UNCHANGED <<honeypotType, remote, grammarVars, cacheVars, dashVars>>

\* The listing response is not ok: listLogFiles throws, and so does the run.
ListHttpError ==
  /\ pc = "listing"
  /\ remote = "answering"
  /\ \E status \in ErrorStatuses :
       /\ responses' = Append(responses, [op |-> "list", ok |-> FALSE, status |-> status])
       /\ error' = ListError(Folder, status)
  /\ pc' = "failed"
  /\ UNCHANGED <<dateRange, filtered, index, allEntries, result, requests, grammarCalls>>
  /\ PageAfterThrow(error')
  /\ UNCHANGED <<honeypotType, remote, grammarVars, cacheVars, dashVars>>

\* The listing response is ok and its JSON is no array.
ListInvalid ==
  /\ pc = "listing"
  /\ remote = "answering"
  /\ responses' = Append(responses, [op |-> "list", ok |-> TRUE, object |-> "not an array"])
  /\ error' = "Invalid API response"
  /\ pc' = "failed"
  /\ UNCHANGED <<dateRange, filtered, index, allEntries, result, requests, grammarCalls>>
  /\ PageAfterThrow(error')
  /\ UNCHANGED <<honeypotType, remote, grammarVars, cacheVars, dashVars>>

\* fetch rejects for the listing request (no connection): the await throws.
ListNetworkError ==
  /\ pc = "listing"
  /\ remote = "answering"
  /\ responses' = Append(responses, [op |-> "list", rejected |-> TRUE])
  /\ error' = "Failed to fetch"
  /\ pc' = "failed"
  /\ UNCHANGED <<dateRange, filtered, index, allEntries, result, requests, grammarCalls>>
  /\ PageAfterThrow(error')
  /\ UNCHANGED <<honeypotType, remote, grammarVars, cacheVars, dashVars>>

\* The content response is ok and its body is read.
FetchOk ==
  /\ pc = "fetching"
  /\ remote = "answering"
  /\ \E text \in FileTexts :
       LET response == [op |-> "content", name |-> filtered[index], ok |-> TRUE,
                        bodyFails |-> FALSE, text |-> text]
       IN  /\ responses' = Append(responses, response)
           /\ AfterContent(ContentOf(response))
  /\ UNCHANGED <<dateRange, filtered, error>>
  /\ UNCHANGED <<honeypotType, remote, grammarVars, cacheVars, dashVars>>

\* The content response is not ok: fetchLogContent returns "".
FetchHttpError ==
  /\ pc = "fetching"
  /\ remote = "answering"
  /\ \E status \in ContentErrorStatuses :
       LET response == [op |-> "content", name |-> filtered[index], ok |-> FALSE,
                        status |-> status]
       IN  /\ responses' = Append(responses, response)
           /\ AfterContent(ContentOf(response))
  /\ UNCHANGED <<dateRange, filtered, error>>
  /\ UNCHANGED <<honeypotType, remote, grammarVars, cacheVars, dashVars>>

\* The content response is ok and reading its body fails: res.text() rejects,
\* fetchLogContent catches it and returns "".
FetchBodyError ==
  /\ pc = "fetching"
  /\ remote = "answering"
  /\ LET response == [op |-> "content", name |-> filtered[index], ok |-> TRUE,
                      bodyFails |-> TRUE]
     IN  /\ responses' = Append(responses, response)
         /\ AfterContent(ContentOf(response))
  /\ UNCHANGED <<dateRange, filtered, error>>
  /\ UNCHANGED <<honeypotType, remote, grammarVars, cacheVars, dashVars>>

\* fetch rejects for a content request (no connection): the await in
\* fetchLogContent is outside its try, so the error leaves fetchLogContent and
\* loadAndParseLogs.
FetchNetworkError ==
  /\ pc = "fetching"
  /\ remote = "answering"
  /\ responses' = Append(responses, [op |-> "content", name |-> filtered[index],
                                     rejected |-> TRUE])
  /\ error' = "Failed to fetch"
  /\ pc' = "failed"
  /\ UNCHANGED <<dateRange, filtered, index, allEntries, result, requests, grammarCalls>>
  /\ PageAfterThrow(error')
  /\ UNCHANGED <<honeypotType, remote, grammarVars, cacheVars, dashVars>>

\* No run of the log page has started.
PipelineIdle ==
  /\ pc = "idle"
  /\ dateRange = [start |-> "", end |-> ""]
  /\ filtered = <<>>
  /\ index = 0
  /\ allEntries = <<>>
  /\ result = pending
  /\ error = ""
  /\ requests = <<>>
  /\ responses = <<>>
  /\ grammarCalls = <<>>
  /\ honeypotType = ""
  /\ remote = "answering"

\* No line has been given to the grammar.
GrammarIdle ==
  /\ line = ""
  /\ parsed = pending
  /\ lineStats = pending
  /\ otherParsed = pending

\* No URL has been built.
CacheIdle ==
  /\ now = 0
  /\ issued = <<>>

\* _cachedStats = null, and a stats.json whose content is null.
nullStats == [isNull |-> TRUE]

\* The dashboard script has not run.
DashIdle ==
  /\ cachedStats = nullStats
  /\ fromCache = FALSE
  /\ days = "30"
  /\ dashPc = "unloaded"
  /\ runDays = ""
  /\ fetchCount = 0
  /\ frames = <<>>
  /\ renders = <<>>
  /\ userEvents = <<>>

\* The panels as the page shows them before any script has run: nothing
\* visible, the button enabled, Chart.js loaded.
PageIdle ==
  /\ chartDefined = TRUE
  /\ statsError = FALSE
  /\ statsContent = FALSE
  /\ statsLoading = FALSE
  /\ errorHtml = ""
  /\ loadBtnDisabled = FALSE

\* The log page when its script starts: Chart.js loaded or not, the panels
\* as the markup has them, the button enabled.
PageLoaded ==
  /\ chartDefined \in BOOLEAN
  /\ statsError \in BOOLEAN
  /\ statsContent \in BOOLEAN
  /\ statsLoading \in BOOLEAN
  /\ errorHtml = ""
  /\ loadBtnDisabled = FALSE

Init ==
  /\ PipelineIdle
  /\ PageLoaded
  /\ GrammarIdle
  /\ CacheIdle
  /\ DashIdle

\* The remote store stops answering: the request that waits, and every
\* later one, gets no response and no error.
RemoteGoesSilent ==
  /\ pc \in {"listing", "fetching"}
  /\ remote = "answering"
  /\ remote' = "silent"
  /\ UNCHANGED <<pc, dateRange, filtered, index, allEntries, result, error, requests,
                 responses, grammarCalls, honeypotType>>
  /\ UNCHANGED <<pageVars, grammarVars, cacheVars, dashVars>>

Next ==
  \/ StartRun
  \/ RunUnsupported
  \/ RunWithoutChart
  \/ RemoteGoesSilent
  \/ ListOk
  \/ ListHttpError
  \/ ListInvalid
  \/ ListNetworkError
  \/ FetchOk
  \/ FetchHttpError
  \/ FetchBodyError
  \/ FetchNetworkError

Spec == Init /\ [][Next]_vars

\* The log page with its scheduling: a step that can be taken is taken in the
\* end (the script runs when the page has loaded, and a response that the
\* remote store gives is handled); the script has no timer of its own.
LiveSpec == Spec /\ WF_vars(Next)

(***************************************************************************)
(* The URLs of the requests: listLogFiles and fetchLogContent build them   *)
(* with cacheBust, which reads the clock.                                  *)
(***************************************************************************)

LOGS_REPO == "seckid/logs"
GITHUB_API_BASE == "https://api.github.com/repos"

\* The characters encodeURIComponent leaves as they are.
Unreserved == UpperCase \o LowerCase \o DecimalDigits \o "-_.!~*'()"

HexDigits == "0123456789ABCDEF"

\* encodeURIComponent of one character (of the characters Code knows).
EncodeChar(c) ==
  IF IndexIn(Unreserved, c) > 0 THEN c
  ELSE "%" \o Char(HexDigits, (Code(c) \div 16) + 1) \o Char(HexDigits, (Code(c) % 16) + 1)

\* encodeURIComponent
RECURSIVE encodeURIComponent(_)
encodeURIComponent(str) ==
  IF str = "" THEN ""
  ELSE EncodeChar(Char(str, 1)) \o encodeURIComponent(SliceFrom(str, 1))

\* cacheBust at the clock value t: "?nocache=" + Date.now()
cacheBust(t) == "?nocache=" \o ToString(t)

\* The URL listLogFiles requests at the clock value t.
ListUrl(folder, t) ==
  GITHUB_API_BASE \o "/" \o LOGS_REPO \o "/contents/" \o folder \o cacheBust(t)

\* The URL fetchLogContent requests at the clock value t.
ContentUrl(folder, filename, t) ==
  GITHUB_API_BASE \o "/" \o LOGS_REPO \o "/contents/" \o folder \o "/"
    \o encodeURIComponent(filename) \o cacheBust(t)

\* The largest clock value, and the largest number of requests, of the check.
MaxClock == 3
MaxRequests == 3

\* The files content is requested for.
CacheFiles == {"2026-02-17_fortipot.log", "2026-02-18_forti pot.log"}

CacheInit ==
  /\ PipelineIdle
  /\ PageIdle
  /\ GrammarIdle
  /\ DashIdle
  /\ now = 0
  /\ issued = <<>>

\* A millisecond passes.
Tick ==
  /\ now < MaxClock
  /\ now' = now + 1
  /\ UNCHANGED issued
  /\ UNCHANGED <<pipelineVars, pageVars, grammarVars, dashVars>>

\* listLogFiles builds its URL and requests it: the first request of a run.
IssueListRequest ==
  /\ Len(issued) < MaxRequests
  /\ issued' = Append(issued, ListUrl(Folder, now))
  /\ UNCHANGED now
  /\ UNCHANGED <<pipelineVars, pageVars, grammarVars, dashVars>>

\* fetchLogContent builds its URL and requests it, after the listing of the
\* run.
IssueContentRequest ==
  /\ Len(issued) >= 1
  /\ Len(issued) < MaxRequests
  /\ \E filename \in CacheFiles :
       issued' = Append(issued, ContentUrl(Folder, filename, now))
  /\ UNCHANGED now
  /\ UNCHANGED <<pipelineVars, pageVars, grammarVars, dashVars>>

CacheNext == Tick \/ IssueListRequest \/ IssueContentRequest

CacheBustSpec == CacheInit /\ [][CacheNext]_vars

(***************************************************************************)
(* The stats.json dashboard: runStats with its cache, the two listeners,   *)
(* fetchStats, and the two animation frames before renderAll.              *)
(***************************************************************************)

\* The largest number of clicks and date-range changes of the check.
MaxUserEvents == 3

\* The values of the date-range select.
DayOptions == {"7", "30", "all"}

\* What res.json() can resolve to: null, an object without total_events, an
\* object with no events, an object with events.
StatsJsons ==
  {nullStats, [generated_at |-> "2026-02-18"], [total_events |-> 0], [total_events |-> 5]}

\* !(!_cachedStats || !_cachedStats.total_events)
HasEvents(stats) ==
  /\ stats # nullStats
  /\ "total_events" \in DOMAIN stats
  /\ stats.total_events # 0

EmptyStatsMessage == "Stats file is empty or unavailable."
DashChartMessage == "Error: Chart.js failed to load"
FetchStatsMessages ==
  {"Error: stats.json not found", "Error: HTTP 500 fetching stats.json",
   "Error: Failed to fetch", "Error: Unexpected token"}

\* The condition of the fetch in runStats:
\* !_cachedStats || (loadBtn && !loadBtn._fromCache)
NeedsFetchAlways(cache, flag) == TRUE
NeedsFetch(cache, flag) == cache = nullStats \/ ~flag

\* The catch of runStats.
DashCatch(message) ==
  /\ statsLoading' = FALSE
  /\ loadBtnDisabled' = FALSE
  /\ statsError' = TRUE
  /\ errorHtml' = message

\* runStats from the end of the fetch on, with the cache holding stats and
\* the constant days of the call being d.
DashAfterFetch(stats, d) ==
  /\ statsLoading' = FALSE
  /\ loadBtnDisabled' = FALSE
  /\ fromCache' = FALSE
  /\ IF HasEvents(stats)
       THEN /\ statsContent' = TRUE
            /\ frames' = Append(frames, [stage |-> 1, days |-> d])
            /\ UNCHANGED errorHtml
       ELSE /\ statsError' = TRUE
            /\ errorHtml' = EmptyStatsMessage
            /\ UNCHANGED frames

\* runStats up to its first await or its end, called with the cache holding
\* cache, loadBtn._fromCache being flag and the select showing d.
DashRunStats(cache, flag, d) ==
  IF ~chartDefined
    THEN /\ statsContent' = FALSE
         /\ DashCatch(DashChartMessage)
         /\ fromCache' = flag
         /\ cachedStats' = cache
         /\ dashPc' = "idle"
         /\ UNCHANGED <<runDays, fetchCount, frames>>
    ELSE IF NeedsFetch(cache, flag)
      THEN /\ statsError' = FALSE
           /\ statsContent' = FALSE
           /\ statsLoading' = TRUE
           /\ loadBtnDisabled' = TRUE
           /\ fromCache' = flag
           /\ cachedStats' = cache
           /\ dashPc' = "fetching"
           /\ runDays' = d
           /\ fetchCount' = fetchCount + 1
           /\ UNCHANGED <<errorHtml, frames>>
      ELSE /\ IF HasEvents(cache) THEN statsError' = FALSE ELSE statsContent' = FALSE
           /\ DashAfterFetch(cache, d)
           /\ cachedStats' = cache
           /\ dashPc' = "idle"
           /\ UNCHANGED <<runDays, fetchCount>>

DashInit ==
  /\ PipelineIdle
  /\ GrammarIdle
  /\ CacheIdle
  /\ PageLoaded
  /\ cachedStats = nullStats
  /\ fromCache = FALSE
  /\ days \in DayOptions
  /\ dashPc = "unloaded"
  /\ runDays = ""
  /\ fetchCount = 0
  /\ frames = <<>>
  /\ renders = <<>>
  /\ userEvents = <<>>

\* DOMContentLoaded on the dashboard (the page the browser has open is not
\* the log page): the listeners are registered and runStats is called.
PageLoad ==
  /\ dashPc = "unloaded"
  /\ pc = "idle"
  /\ DashRunStats(cachedStats, fromCache, days)
  /\ UNCHANGED <<days, renders, userEvents, chartDefined>>
  /\ UNCHANGED <<pipelineVars, grammarVars, cacheVars>>

\* A click on the load button (a disabled button receives no click).
ClickLoad ==
  /\ dashPc # "unloaded"
  /\ ~loadBtnDisabled
  /\ Len(userEvents) < MaxUserEvents
  /\ userEvents' = Append(userEvents, [kind |-> "click", cached |-> cachedStats # nullStats])
  /\ DashRunStats(nullStats, fromCache, days)
  /\ UNCHANGED <<days, renders, chartDefined>>
  /\ UNCHANGED <<pipelineVars, grammarVars, cacheVars>>

\* The user picks another date range.
DateChange(d) ==
  /\ dashPc # "unloaded"
  /\ d # days
  /\ Len(userEvents) < MaxUserEvents
  /\ userEvents' = Append(userEvents, [kind |-> "change", cached |-> cachedStats # nullStats])
  /\ days' = d
  /\ IF cachedStats # nullStats
       THEN DashRunStats(cachedStats, TRUE, d)
       ELSE UNCHANGED <<cachedStats, fromCache, dashPc, runDays, fetchCount, frames,
                        statsError, statsContent, statsLoading, errorHtml, loadBtnDisabled>>
  /\ UNCHANGED <<renders, chartDefined>>
  /\ UNCHANGED <<pipelineVars, grammarVars, cacheVars>>

\* fetchStats returns what res.json() resolved to.
FetchStatsOk(json) ==
  /\ dashPc = "fetching"
  /\ cachedStats' = json
  /\ DashAfterFetch(json, runDays)
  /\ IF HasEvents(json) THEN UNCHANGED statsError ELSE UNCHANGED statsContent
  /\ dashPc' = "idle"
  /\ UNCHANGED <<days, runDays, fetchCount, renders, userEvents, chartDefined>>
  /\ UNCHANGED <<pipelineVars, grammarVars, cacheVars>>

\* fetchStats throws: the status is not ok, fetch rejects, or res.json()
\* rejects.
FetchStatsFails(message) ==
  /\ dashPc = "fetching"
  /\ DashCatch(message)
  /\ dashPc' = "idle"
  /\ UNCHANGED <<cachedStats, fromCache, days, runDays, fetchCount, frames, renders,
                  userEvents, chartDefined, statsContent>>
  /\ UNCHANGED <<pipelineVars, grammarVars, cacheVars>>

\* The callbacks of one animation frame, for the entries of q in order: the
\* callbacks they schedule, and the calls of renderAll they make.
RECURSIVE FramesScheduled(_)
FramesScheduled(q) ==
  IF q = <<>> THEN <<>>
  ELSE (IF Head(q).stage = 1 THEN <<[stage |-> 2, days |-> Head(q).days]>> ELSE <<>>)
         \o FramesScheduled(Tail(q))

RECURSIVE FramesRendered(_, _)
FramesRendered(q, stats) ==
  IF q = <<>> THEN <<>>
  ELSE (IF Head(q).stage = 2 THEN <<[stats |-> stats, days |-> Head(q).days]>> ELSE <<>>)
         \o FramesRendered(Tail(q), stats)

\* The browser draws a frame: every callback that waits runs; the outer ones
\* schedule the inner ones, the inner ones call renderAll(_cachedStats, days).
AnimationFrame ==
  /\ frames # <<>>
  /\ frames' = FramesScheduled(frames)
  /\ renders' = renders \o FramesRendered(frames, cachedStats)
  /\ UNCHANGED <<cachedStats, fromCache, days, dashPc, runDays, fetchCount, userEvents>>
  /\ UNCHANGED <<pipelineVars, pageVars, grammarVars, cacheVars>>

DashNext ==
  \/ PageLoad
  \/ ClickLoad
  \/ \E d \in DayOptions : DateChange(d)
  \/ \E json \in StatsJsons : FetchStatsOk(json)
  \/ \E message \in FetchStatsMessages : FetchStatsFails(message)
  \/ AnimationFrame

DashSpec == DashInit /\ [][DashNext]_vars

(***************************************************************************)
(* The two pages side by side, each with its runStats called again and     *)
(* again.  On the log page loadAndParseLogs is taken by its outcomes: it   *)
(* returns the aggregate of some entries, it throws, or it has not         *)
(* settled yet.                                                            *)
(***************************************************************************)

\* What loadAndParseLogs can throw (listLogFiles, or a rejected fetch).
LoadErrors ==
  {ListError(Folder, status) : status \in ErrorStatuses}
    \cup {"Invalid API response", "Failed to fetch"}

\* runStats of the log page, called with the select showing the type t, up to
\* its return or to its await of loadAndParseLogs.
LogsRunStats(t) ==
  /\ honeypotType' = t
  /\ IF ~IsSupported(t)
       THEN /\ statsContent' = FALSE
            /\ statsLoading' = FALSE
            /\ statsError' = TRUE
            /\ errorHtml' = UnsupportedMessage
            /\ pc' = "unsupported"
            /\ UNCHANGED <<chartDefined, loadBtnDisabled, error>>
       ELSE IF ~chartDefined
         THEN /\ statsContent' = FALSE
              /\ statsLoading' = FALSE
              /\ loadBtnDisabled' = FALSE
              /\ statsError' = TRUE
              /\ errorHtml' = "Error: " \o ChartMessage
              /\ error' = ChartMessage
              /\ pc' = "failed"
              /\ UNCHANGED chartDefined
         ELSE /\ PageAtStart
              /\ pc' = "listing"
              /\ UNCHANGED error
  /\ UNCHANGED <<dateRange, filtered, index, allEntries, result, requests, responses,
                 grammarCalls, remote>>
  /\ UNCHANGED <<grammarVars, cacheVars, dashVars>>

\* DOMContentLoaded on the log page (the page the browser has open is not
\* the dashboard): runStats is called.
LogsPageLoad ==
  /\ pc = "idle"
  /\ dashPc = "unloaded"
  /\ \E t \in HoneypotTypes : LogsRunStats(t)

\* A click on the load button of the log page (a disabled button receives
\* no click): runStats is called.
LogsClickLoad ==
  /\ pc \in {"done", "failed", "unsupported"}
  /\ ~loadBtnDisabled
  /\ \E t \in HoneypotTypes : LogsRunStats(t)

\* loadAndParseLogs returns the aggregate of the entries of a text.
LogsReturn ==
  /\ pc = "listing"
  /\ \E text \in FileTexts \cup {""} :
       result' = aggregate(parseLogLines(text, Folder))
  /\ PageAfterReturn(result')
  /\ pc' = "done"
  /\ UNCHANGED <<dateRange, filtered, index, allEntries, error, requests, responses,
                 grammarCalls, honeypotType, remote>>
  /\ UNCHANGED <<grammarVars, cacheVars, dashVars>>

\* loadAndParseLogs throws.
LogsThrow ==
  /\ pc = "listing"
  /\ \E message \in LoadErrors : error' = message
  /\ PageAfterThrow(error')
  /\ pc' = "failed"
  /\ UNCHANGED <<dateRange, filtered, index, allEntries, result, requests, responses,
                 grammarCalls, honeypotType, remote>>
  /\ UNCHANGED <<grammarVars, cacheVars, dashVars>>

\* The browser has one of the two pages open: the first runStats decides
\* which, and the other page's script never runs.
PagesNext ==
  \/ LogsPageLoad
  \/ LogsClickLoad
  \/ LogsReturn
  \/ LogsThrow
  \/ PageLoad
  \/ ClickLoad
  \/ \E d \in DayOptions : DateChange(d)
  \/ \E json \in StatsJsons : FetchStatsOk(json)
  \/ \E message \in FetchStatsMessages : FetchStatsFails(message)
  \/ AnimationFrame

PagesSpec == DashInit /\ [][PagesNext]_vars

(***************************************************************************)
(* The grammar on its own: a line is drawn, parsed, and aggregated.        *)
(***************************************************************************)

GrammarInit ==
  /\ PipelineIdle
  /\ PageIdle
  /\ CacheIdle
  /\ DashIdle
  /\ line \in Lines
  /\ parsed = pending
  /\ lineStats = pending
  /\ otherParsed = pending

\* LOG_PARSERS.fortipot(line)
ParseLine ==
  /\ parsed = pending
  /\ parsed' = fortipot(line)
  /\ UNCHANGED <<line, lineStats, otherParsed>>
  /\ UNCHANGED <<pipelineVars, pageVars, cacheVars, dashVars>>

\* aggregate(parseLogLines(line, 'fortipot'))
AggregateLine ==
  /\ parsed # pending
  /\ lineStats = pending
  /\ lineStats' = aggregate(parseLogLines(line, "fortipot"))
  /\ UNCHANGED <<line, parsed, otherParsed>>
  /\ UNCHANGED <<pipelineVars, pageVars, cacheVars, dashVars>>

\* parseLogLines and the parser of a declared type other than fortipot, on the
\* line and on every body a log file may have.
ParseOther ==
  /\ lineStats # pending
  /\ otherParsed = pending
  /\ \E t \in HoneypotTypes \ {"fortipot"} :
       otherParsed' =
         [honeypotType |-> t,
          parsed |-> Parser(t, line),
          entries |-> [text \in FileTexts \cup {line} |-> parseLogLines(text, t)]]
  /\ UNCHANGED <<line, parsed, lineStats>>
  /\ UNCHANGED <<pipelineVars, pageVars, cacheVars, dashVars>>

GrammarNext == ParseLine \/ AggregateLine \/ ParseOther

GrammarSpec == GrammarInit /\ [][GrammarNext]_vars

(***************************************************************************)
(* Properties                                                              *)
(***************************************************************************)

\* The sum of the counts of a tally.
RECURSIVE SumOver(_, _)
SumOver(tally, keys) ==
  IF keys = {} THEN 0
  ELSE LET k == CHOOSE key \in keys : TRUE
       IN  tally[k] + SumOver(tally, keys \ {k})

TallySum(tally) == SumOver(tally, DOMAIN tally)

\* The responses to content requests, in order.
ContentResponses == SelectSeq(responses, LAMBDA r : r.op = "content")

\* The names of the files content was requested for, in order.
RequestedNames ==
  LET content == SelectSeq(requests, LAMBDA q : q.op = "content")
  IN  [i \in 1..Len(content) |-> content[i].name]

\* A content response that did not deliver the body of the file.
IsFetchFailure(r) == r.op = "content" /\ "text" \notin DOMAIN r

\* The body the remote store delivered for a file ("" when the fetch failed).
TextDelivered(name) ==
  LET got == {i \in 1..Len(responses) :
                /\ responses[i].op = "content"
                /\ responses[i].name = name
                /\ "text" \in DOMAIN responses[i]}
  IN  IF got = {} THEN "" ELSE responses[Least(got)].text

\* The events of a sequence of raw lines: each line is trimmed, and a line
\* that is not empty and that the grammar accepts gives its event.
RECURSIVE EventsOfLines(_)
EventsOfLines(lines) ==
  IF Len(lines) = 0 THEN <<>>
  ELSE LET l == Trim(Head(lines))
           e == fortipot(l)
           here == IF l # "" /\ e # nullEvent THEN <<e>> ELSE <<>>
       IN  here \o EventsOfLines(Tail(lines))

\* The events of one body, read line by line.
EventsOfText(t) == EventsOfLines(SplitLines(t))

\* The events of the delivered bodies of the named files, file after file.
RECURSIVE EventsOfFiles(_)
EventsOfFiles(names) ==
  IF Len(names) = 0 THEN <<>>
  ELSE EventsOfText(TextDelivered(Head(names))) \o EventsOfFiles(Tail(names))

\* The credential records of a sequence of events, in order.
RECURSIVE LoginsOf(_)
LoginsOf(events) ==
  IF Len(events) = 0 THEN <<>>
  ELSE LET e == Head(events)
           here == IF "loginUsername" \in DOMAIN e
                   THEN <<[ts |-> e.ts, date |-> e.date, ip |-> e.ip,
                           username |-> e.loginUsername, password |-> e.loginPassword]>>
                   ELSE <<>>
       IN  here \o LoginsOf(Tail(events))

\* C1: when a run returns, the files were requested in the order the File
\* Selector returned them, and loginAttempts of the result is the credential
\* records of the delivered bodies, file after file in that order and line
\* after line within a file: none reordered, duplicated or lost.
C1_CredentialOrder ==
  pc = "done" =>
    /\ RequestedNames = filtered
    /\ result.loginAttempts = LoginsOf(EventsOfFiles(filtered))

\* C1 witness: a run returned three different credential records read from
\* two files.
C1_Witness ==
  /\ pc = "done"
  /\ Len(filtered) = 2
  /\ TextDelivered(filtered[1]) # ""
  /\ TextDelivered(filtered[2]) # ""
  /\ Len(result.loginAttempts) = 3
  /\ Cardinality({result.loginAttempts[i] : i \in 1..3}) = 3

\* C2: total of a result is the number of events given to aggregate and the
\* sum of the byEvent counts, and the byIp counts sum to at most total.
C2_TotalsAgree ==
  pc = "done" =>
    /\ result.total = Len(allEntries)
    /\ TallySum(result.byEvent) = result.total
    /\ TallySum(result.byIp) <= result.total

\* C2 witness: a result over several events, one of them without an address.
C2_Witness ==
  /\ pc = "done"
  /\ result.total >= 3
  /\ TallySum(result.byIp) < result.total
  /\ Cardinality(DOMAIN result.byEvent) >= 2

\* C3: a content fetch that fails never aborts the run: no error reaches the
\* caller, the file adds no event, and when the run returns, the result is the
\* aggregate of the events of the bodies that were delivered.
C3_FetchFailureNeverAborts ==
  (\E i \in 1..Len(responses) : IsFetchFailure(responses[i])) =>
    /\ pc # "failed"
    /\ error = ""
    /\ pc = "done" => result = aggregate(EventsOfFiles(filtered))

\* A listing response that is not ok.
IsListHttpFailure(r) == r.op = "list" /\ "status" \in DOMAIN r

\* C4: after a listing response that is not ok the run has thrown an error
\* whose message carries the status of the response, no content request has
\* been sent, nothing was answered after it, and no result was returned.
C4_ListingFailureIsFatal ==
  \A i \in 1..Len(responses) :
    IsListHttpFailure(responses[i]) =>
      /\ pc = "failed"
      /\ Includes(error, ToString(responses[i].status))
      /\ result = pending
      /\ RequestedNames = <<>>
      /\ i = Len(responses)

\* C4 witness: the listing was answered with status 404 and the run failed.
C4_Witness ==
  /\ pc = "failed"
  /\ Len(responses) = 1
  /\ IsListHttpFailure(responses[1])
  /\ responses[1].status = 404

\* A string of the shape YYYY-MM-DD.
IsDateShaped(d) ==
  /\ Len(d) = 10
  /\ \A i \in 1..10 : IF i \in {5, 8} THEN Char(d, i) = "-" ELSE IsDigit(Char(d, i))

\* A name of the shape YYYY-MM-DD_<anything>.log.
HasLogFileShape(name) ==
  /\ Len(name) >= 15
  /\ IsDateShaped(SubSeq(name, 1, 10))
  /\ name = SubSeq(name, 1, 10) \o "_" \o SubSeq(name, 12, Len(name) - 4) \o ".log"

\* The number a digit stands for.
DigitValue(c) == IndexIn(DecimalDigits, c) - 1

\* A date of the shape YYYY-MM-DD as the number YYYYMMDD.
DateNumber(d) ==
  LET v(i) == DigitValue(Char(d, i))
  IN  (((v(1) * 10 + v(2)) * 10 + v(3)) * 10 + v(4)) * 10000
      + (v(6) * 10 + v(7)) * 100 + v(9) * 10 + v(10)

\* The names the window of the run selects from the array of a listing: the
\* names of its files that have the shape of a log file name and a date
\* between the day of start and the day of end, both included.
NamesInWindow(data) ==
  LET first == DateNumber(SubSeq(dateRange.start, 1, 10))
      last == DateNumber(SubSeq(dateRange.end, 1, 10))
      InWindow(name) ==
        LET d == DateNumber(SubSeq(name, 1, 10))
        IN  first <= d /\ d <= last
  IN  { data[i].name : i \in
          { k \in 1..Len(data) :
              /\ data[k].type = "file"
              /\ HasLogFileShape(data[k].name)
              /\ InWindow(data[k].name) } }

\* The listing arrived as an array.
Listed == pc \in {"fetching", "done"}

\* C5: once the listing has arrived, the selected names are exactly the names
\* of the files of the listing that have the shape YYYY-MM-DD_<anything>.log
\* and a date d with start <= d <= end, in ascending order of the names, and
\* not-a-date.log is never one of them.
C5_FileSelector ==
  Listed =>
    /\ {filtered[i] : i \in 1..Len(filtered)} = NamesInWindow(responses[1].data)
    /\ \A i \in 1..Len(filtered) : \A j \in 1..Len(filtered) :
         i < j => StrLess(filtered[i], filtered[j])
    /\ \A i \in 1..Len(filtered) : filtered[i] # "not-a-date.log"

\* C5 witness: a listing in descending order with a file before the window
\* and the files of the first and of the last day of the window.
C5_Witness ==
  /\ Listed
  /\ Len(responses[1].data) = 3
  /\ responses[1].data[1].name = "2026-02-19_fortipot.log"
  /\ responses[1].data[2].name = "2026-02-18_fortipot.log"
  /\ responses[1].data[3].name = "2026-02-17_fortipot.log"
  /\ SubSeq(dateRange.start, 1, 10) = "2026-02-18"
  /\ SubSeq(dateRange.end, 1, 10) = "2026-02-19"
  /\ filtered = <<"2026-02-18_fortipot.log", "2026-02-19_fortipot.log">>

\* The run has ended: it returned or it threw.
RunEnded == pc \in {"done", "failed"}

\* C6: content is requested only for files of the window and for none twice;
\* when the run has ended, content has been requested once for every file of
\* the window; and a returned result is the aggregate of the events of the
\* bodies of the files of the window.
C6_EachWindowFileFetchedOnce ==
  /\ \A i \in 1..Len(RequestedNames) :
       \E k \in 1..Len(filtered) : filtered[k] = RequestedNames[i]
  /\ \A i \in 1..Len(RequestedNames) : \A j \in 1..Len(RequestedNames) :
       RequestedNames[i] = RequestedNames[j] => i = j
  /\ RunEnded =>
       \A k \in 1..Len(filtered) :
         \E i \in 1..Len(RequestedNames) : RequestedNames[i] = filtered[k]
  /\ pc = "done" => result = aggregate(EventsOfFiles(filtered))

\* A line with nothing but whitespace in it.
IsBlank(l) == \A i \in 1..Len(l) : IsSpace(Char(l, i))

\* The lines of one body that are not blank,
\* trimmed, in order.
TrimmedLinesOfText(t) ==
  LET kept == SelectSeq(SplitLines(t), LAMBDA l : ~IsBlank(l))
  IN  [i \in 1..Len(kept) |-> Trim(kept[i])]

\* The trimmed lines, blank ones left out, of the delivered bodies of the
\* named files, file after file.
RECURSIVE TrimmedLinesOfFiles(_)
TrimmedLinesOfFiles(names) ==
  IF Len(names) = 0 THEN <<>>
  ELSE TrimmedLinesOfText(TextDelivered(Head(names))) \o TrimmedLinesOfFiles(Tail(names))

\* Whether a delivered body holds a blank line, and a line the grammar rejects.
HasNoise(t) ==
  /\ \E i \in 1..Len(SplitLines(t)) : IsBlank(SplitLines(t)[i])
  /\ Len(EventsOfText(t)) < Len(TrimmedLinesOfText(t))

\* C7: no blank line is handed to the parser: the parser is called once for
\* every line that is not blank, with the line trimmed; and when a run returns
\* it threw nothing, its total is the number of lines the grammar returned an
\* event for, and the lines without an event add to no tally and no list.
C7_UnparseableLinesDropped ==
  /\ \A i \in 1..Len(grammarCalls) : ~IsBlank(grammarCalls[i])
  /\ pc = "done" =>
       LET events == EventsOfFiles(filtered)
       IN  /\ error = ""
           /\ grammarCalls = TrimmedLinesOfFiles(filtered)
           /\ result.total = Len(events)
           /\ result = aggregate(events)

\* C7 witness: a run returned events from a body that also holds blank lines
\* and a line the grammar rejects.
C7_Witness ==
  /\ pc = "done"
  /\ result.total >= 1
  /\ Len(grammarCalls) > result.total
  /\ \E k \in 1..Len(filtered) : HasNoise(TextDelivered(filtered[k]))

\* The number of fields of a line: one more than its pipes.
FieldCount(l) == Cardinality({i \in 1..Len(l) : Char(l, i) = "|"}) + 1

\* The value is an event the grammar returned.
IsEvent(v) ==
  /\ v # pending
  /\ v # nullEvent
  /\ {"date", "ip", "eventType", "ts"} \subseteq DOMAIN v

\* C8: the fortipot grammar returns null for a line of fewer than 4 fields and
\* an event for a line of 4 fields or more.
C8_FourFieldsParse ==
  parsed # pending =>
    IF FieldCount(line) < 4 THEN parsed = nullEvent ELSE IsEvent(parsed)

\* C8 witness: a line of three fields, a message among them, was rejected.
C8_Witness ==
  /\ parsed = nullEvent
  /\ FieldCount(line) = 3
  /\ Includes(line, LoginMarker)

\* The message of a line of 4 fields or more: what follows the third pipe,
\* trimmed, without the address prefix.
MessageOf(l) ==
  LET pipes == {i \in 1..Len(l) : Char(l, i) = "|"}
      third == CHOOSE p \in pipes : Cardinality({q \in pipes : q < p}) = 2
  IN  stripAddrPrefix(Trim(SliceFrom(l, third)))

\* A string of the shape CVE-YYYY-digits.
IsCveId(t) ==
  /\ Len(t) >= 10
  /\ SubSeq(t, 1, 4) = "CVE-"
  /\ \A i \in 5..8 : IsDigit(Char(t, i))
  /\ Char(t, 9) = "-"
  /\ \A i \in 10..Len(t) : IsDigit(Char(t, i))

\* The positions of m where an identifier CVE-YYYY-digits begins.
CvePositions(m) == {i \in 1..Len(m) : i + 9 <= Len(m) /\ IsCveId(SubSeq(m, i, i + 9))}

\* t is "GET " and the path token of m, or "GET /" when m has no token there.
IsGetTypeOf(t, m) ==
  LET path == SliceFrom(t, 4)
  IN  /\ StartsWith(t, "GET ")
      /\ path # ""
      /\ \A i \in 1..Len(path) : ~IsSpace(Char(path, i))
      /\ IF IsSpace(Char(m, 5)) THEN path = "/"
         ELSE /\ MatchesAt(m, path, 5)
              /\ (5 + Len(path) > Len(m) \/ IsSpace(Char(m, 5 + Len(path))))

\* t is the first identifier CVE-YYYY-digits of m, with all its digits.
IsFirstCveOf(t, m) ==
  LET first == Least(CvePositions(m))
  IN  /\ IsCveId(t)
      /\ MatchesAt(m, t, first)
      /\ ~IsDigit(Char(m, first + Len(t)))

\* C9: the event type of a message is LOGIN when it contains LOGIN username=,
\* whatever else it holds; otherwise GET <path> when it starts with GET and a
\* space, a CVE identifier in it or not; otherwise its first CVE identifier when
\* it holds one; otherwise the message itself, or other when it is empty.
C9_ClassificationPriority ==
  IsEvent(parsed) =>
    LET m == MessageOf(line)
        t == parsed.eventType
    IN  IF Includes(m, "LOGIN username=") THEN t = "LOGIN"
        ELSE IF StartsWith(m, "GET ") THEN IsGetTypeOf(t, m)
        ELSE IF CvePositions(m) # {} THEN IsFirstCveOf(t, m)
        ELSE t = (IF m = "" THEN "other" ELSE m)

\* C9 witness: a message that starts with GET, holds a CVE identifier and
\* holds the login marker was typed LOGIN.
C9_Witness ==
  /\ IsEvent(parsed)
  /\ StartsWith(MessageOf(line), "GET ")
  /\ CvePositions(MessageOf(line)) # {}
  /\ Includes(MessageOf(line), "LOGIN username=")
  /\ parsed.eventType = "LOGIN"

\* The line holds the login marker and not the full login pattern.
IsPartialLogin(l) ==
  /\ FieldCount(l) >= 4
  /\ Includes(MessageOf(l), "LOGIN username=")
  /\ LoginMatch(MessageOf(l)) = <<>>

\* C10: a line with the marker LOGIN username= whose message does not match
\* the full login pattern is an event of type LOGIN without a credential pair;
\* aggregated, it counts once under LOGIN and in total and adds no login
\* attempt.
C10_PartialLoginKept ==
  (IsPartialLogin(line) /\ parsed # pending) =>
    /\ IsEvent(parsed)
    /\ parsed.eventType = "LOGIN"
    /\ "loginUsername" \notin DOMAIN parsed
    /\ "loginPassword" \notin DOMAIN parsed
    /\ lineStats # pending =>
         /\ "LOGIN" \in DOMAIN lineStats.byEvent
         /\ lineStats.byEvent["LOGIN"] = 1
         /\ lineStats.total = 1
         /\ lineStats.loginAttempts = <<>>

\* C10 witness: a line with the marker and a password part and no user name
\* between them was parsed and aggregated.
C10_Witness ==
  /\ IsPartialLogin(line)
  /\ Includes(MessageOf(line), " password=")
  /\ lineStats # pending
  /\ lineStats.total = 1

\* The event carries a credential pair.
CarriesPair(e) == IsEvent(e) /\ {"loginUsername", "loginPassword"} \subseteq DOMAIN e

\* C11: aggregate appends exactly one record, with the pair as it is, for an
\* event that carries a credential pair, an empty user name or password
\* included, and none for an event without a pair; the events that carry a
\* pair are those whose message matches the full login pattern.
C11_CredentialPairPresence ==
  /\ IsEvent(parsed) =>
       (CarriesPair(parsed) <=> LoginMatch(MessageOf(line)) # <<>>)
  /\ lineStats # pending =>
       IF CarriesPair(parsed)
       THEN lineStats.loginAttempts =
              << [ts |-> parsed.ts, date |-> parsed.date, ip |-> parsed.ip,
                  username |-> parsed.loginUsername,
                  password |-> parsed.loginPassword] >>
       ELSE lineStats.loginAttempts = <<>>

\* C11 witness: an event whose user name and password are both the empty
\* string was aggregated into one record.
C11_Witness ==
  /\ lineStats # pending
  /\ CarriesPair(parsed)
  /\ parsed.loginUsername = ""
  /\ parsed.loginPassword = ""
  /\ Len(lineStats.loginAttempts) = 1

\* The field of a line at 1-based position k, trimmed.
FieldOf(l, k) == Trim(SplitChar(l, "|")[k])

\* The line has 4 fields or more and no YYYY-MM-DD at the start of its timestamp.
IsUndated(l) ==
  /\ FieldCount(l) >= 4
  /\ LET ts == FieldOf(l, 1)
     IN  ~(/\ Len(ts) >= 10
           /\ IsDateShaped(SubSeq(ts, 1, 10)))

\* What C12 says of the parser and of byDate, byEvent and total.
UndatedEmittedAndCounted ==
  (IsUndated(line) /\ parsed # pending) =>
    /\ IsEvent(parsed)
    /\ parsed.date = null
    /\ lineStats # pending =>
         /\ DOMAIN lineStats.byDate = {}
         /\ DOMAIN lineStats.byEvent = {parsed.eventType}
         /\ lineStats.byEvent[parsed.eventType] = 1
         /\ lineStats.total = 1

\* C12 as stated: an event without a date is emitted, is left out of byDate
\* and is counted in byEvent, in byIp and in total.
C12_UndatedCountedEverywhere ==
  /\ UndatedEmittedAndCounted
  /\ (IsUndated(line) /\ lineStats # pending) =>
       TallySum(lineStats.byIp) = 1

\* C12 amended: an event without a date is emitted, is left out of byDate and
\* is counted in byEvent and in total, and in byIp when its address is not
\* empty; with an empty address byIp counts nothing.
C12_UndatedCountedByTypeAndTotal ==
  /\ UndatedEmittedAndCounted
  /\ (IsUndated(line) /\ lineStats # pending) =>
       IF FieldOf(line, 3) # ""
       THEN /\ DOMAIN lineStats.byIp = {FieldOf(line, 3)}
            /\ lineStats.byIp[FieldOf(line, 3)] = 1
       ELSE DOMAIN lineStats.byIp = {}

\* C12 witness: an event without a date and with an address was aggregated.
C12_Witness ==
  /\ IsUndated(line)
  /\ lineStats # pending
  /\ FieldOf(line, 3) = "9.9.9.9"
  /\ lineStats.total = 1

\* The address prefixes of the three shapes: quoted, unquoted, double-quoted.
AddrPrefixes == {"('5.6.7.8', 443)", "(5.6.7.8, 443)", "(\"5.6.7.8\", 443)"}

\* What follows the third pipe of a line of 4 fields or more, trimmed.
RawMessageOf(l) ==
  LET first == FirstAt(l, "|", 1)
      second == FirstAt(l, "|", first + 1)
      third == FirstAt(l, "|", second + 1)
  IN  Trim(SliceFrom(l, third))

\* t is the event type the classification gives the message m.
ClassifiedAs(t, m) ==
  IF Includes(m, "LOGIN username=") THEN t = "LOGIN"
  ELSE IF StartsWith(m, "GET ") THEN IsGetTypeOf(t, m)
  ELSE IF CvePositions(m) # {} THEN IsFirstCveOf(t, m)
  ELSE t = (IF m = "" THEN "other" ELSE m)

\* C17: when the message of a line begins with an address prefix (ip, port),
\* ('ip', port) or ("ip", port), its event type is the type of what follows
\* that one prefix, trimmed: a marker behind the prefix decides the type, and
\* a second prefix behind the first is not removed; the line with the message
\* ('5.6.7.8', 443) GET /x has the type GET /x.
C17_AddrPrefixStrippedOnce ==
  IsEvent(parsed) =>
    /\ \A p \in AddrPrefixes :
         StartsWith(RawMessageOf(line), p) =>
           ClassifiedAs(parsed.eventType,
                        Trim(SliceFrom(RawMessageOf(line), Len(p))))
    /\ line = "2026-02-18T00:00:00|INFO|1.2.3.4|('5.6.7.8', 443) GET /x" =>
         parsed.eventType = "GET /x"

\* C17 witness: a line with a request behind two address prefixes was parsed
\* and its type is the second prefix and the request.
C17_Witness ==
  /\ IsEvent(parsed)
  /\ RawMessageOf(line) = "('5.6.7.8', 443) ('5.6.7.8', 443) GET /x"
  /\ parsed.eventType = "('5.6.7.8', 443) GET /x"

\* C18: under ssh, rdp and ftp the parser returns null for the line, and
\* parseLogLines returns no event for the line and for every body, the ones
\* the fortipot grammar reads events from included.
C18_OtherTypesYieldNothing ==
  otherParsed # pending =>
    /\ otherParsed.honeypotType \in {"ssh", "rdp", "ftp"}
    /\ otherParsed.parsed = nullEvent
    /\ \A text \in DOMAIN otherParsed.entries : otherParsed.entries[text] = <<>>

\* C18 witness: a line the fortipot grammar reads an event from was parsed
\* under rdp.
C18_Witness ==
  /\ otherParsed # pending
  /\ otherParsed.honeypotType = "rdp"
  /\ IsEvent(parsed)
  /\ lineStats.total = 1

\* The cache-bust value of a URL: what follows "?nocache=".
CacheBustOf(url) == SliceFrom(url, FirstAt(url, "?", 1) + Len("nocache="))

\* C13: no two requests carry the same cache-bust value.
C13_CacheBustUnique ==
  \A i \in 1..Len(issued) : \A j \in 1..Len(issued) :
    i # j => CacheBustOf(issued[i]) # CacheBustOf(issued[j])

\* The last click or date-range change, when this step is one.
IsUserEvent == Len(userEvents') = Len(userEvents) + 1
LastUserEvent == userEvents'[Len(userEvents')]
IsClick == IsUserEvent /\ LastUserEvent.kind = "click"
IsChange == IsUserEvent /\ LastUserEvent.kind = "change"

\* A date-range change with no stats in the cache does nothing but move the
\* select.
ChangeWithoutCacheDoesNothing ==
  IsChange /\ cachedStats = nullStats =>
    UNCHANGED <<cachedStats, fromCache, dashPc, runDays, fetchCount, frames, renders, pageVars>>

\* C19 as stated: a date-range change with stats in the cache fetches nothing
\* and schedules the rendering of the cache for the new range; a click
\* always empties the cache and calls fetchStats exactly once; a change
\* with no stats in the cache does nothing.
C19_ChangeRendersClickFetches ==
  [][/\ IsChange /\ cachedStats # nullStats =>
          /\ fetchCount' = fetchCount
          /\ dashPc' = "idle"
          /\ cachedStats' = cachedStats
          /\ frames' = Append(frames, [stage |-> 1, days |-> days'])
     /\ IsClick =>
          /\ cachedStats' = nullStats
          /\ fetchCount' = fetchCount + 1
          /\ dashPc' = "fetching"
     /\ ChangeWithoutCacheDoesNothing]_vars

\* C19, amended: a date-range change with stats in the cache fetches nothing;
\* it schedules the rendering of the cache for the new range when the cached
\* stats have events and shows the error panel when they have none.  A click
\* always empties the cache; it calls fetchStats exactly once when Chart.js
\* is loaded, and not at all when it is not.  A change with no stats in the
\* cache does nothing.  fetchStats is called by no other step than a click
\* and the load of the page.
C19_ChangeNeverFetchesClickFetchesWithChart ==
  [][/\ IsChange /\ cachedStats # nullStats =>
          /\ fetchCount' = fetchCount
          /\ dashPc' = "idle"
          /\ cachedStats' = cachedStats
          /\ IF HasEvents(cachedStats)
               THEN /\ frames' = Append(frames, [stage |-> 1, days |-> days'])
                    /\ statsContent' /\ ~statsError'
               ELSE /\ frames' = frames
                    /\ statsError' /\ ~statsContent'
     /\ IsClick =>
          /\ cachedStats' = nullStats
          /\ IF chartDefined
               THEN fetchCount' = fetchCount + 1 /\ dashPc' = "fetching"
               ELSE fetchCount' = fetchCount /\ dashPc' = "idle" /\ statsError'
     /\ ChangeWithoutCacheDoesNothing
     /\ fetchCount' # fetchCount => IsClick \/ dashPc = "unloaded"]_vars

\* A change that found stats in the cache, and then a click that found the
\* cache full, have happened, and the page waits for the answer to the fetch
\* of the click.
C19_Witness ==
  /\ \E i \in 1..Len(userEvents) : userEvents[i] = [kind |-> "change", cached |-> TRUE]
  /\ Len(userEvents) > 0
  /\ userEvents[Len(userEvents)] = [kind |-> "click", cached |-> TRUE]
  /\ dashPc = "fetching"
  /\ fetchCount = 2
  /\ cachedStats = nullStats

\* C20: renderAll is only ever called with stats that are not null and have
\* total_events > 0.
C20_RenderAllGetsStatsWithEvents ==
  \A i \in 1..Len(renders) : HasEvents(renders[i].stats)

\* C14: every run that has started returns a result or throws an error in
\* the end, whatever the remote store does, a store that stops answering
\* included.
C14_EveryRunEnds ==
  (pc \in {"listing", "fetching"}) ~> (pc \in {"done", "failed"})

\* C15: when runStats has read a honeypot type other than fortipot, it has
\* ended with the error panel visible and a message in it that names what is
\* available, the content and the loading panels hidden, and no request sent,
\* no result and no run of the pipeline; it ends so for no other type.
C15_UnsupportedTypeFails ==
  /\ (pc # "idle" /\ honeypotType # "fortipot") =>
       /\ pc = "unsupported"
       /\ statsError
       /\ Includes(errorHtml, "Only FortiPot logs are available")
       /\ ~statsContent
       /\ ~statsLoading
       /\ requests = <<>>
       /\ responses = <<>>
       /\ result = pending
  /\ pc = "unsupported" => honeypotType \in {"ssh", "rdp", "ftp"}

\* C15 witness: runStats ended for the type rdp on a page without Chart.js.
C15_Witness ==
  /\ pc = "unsupported"
  /\ honeypotType = "rdp"
  /\ ~chartDefined
  /\ statsError

\* A runStats of the page that is open has finished and none is running; one
\* is waiting for loadAndParseLogs or for fetchStats.
RunFinished == pc \in {"done", "failed", "unsupported"} \/ dashPc = "idle"
RunInFlight == pc = "listing" \/ dashPc = "fetching"

\* C21: when a runStats has finished, on the log page or on the dashboard and
\* on any path, the loading indicator is hidden, the load button is enabled,
\* and exactly one of the error panel and the content panel is visible; the
\* button is disabled only while a run is in flight.
C21_FinishedRunLeavesPageSettled ==
  /\ RunFinished =>
       /\ ~statsLoading
       /\ ~loadBtnDisabled
       /\ statsError # statsContent
  /\ loadBtnDisabled => RunInFlight

\* C21 witness: on the log page a run returned a result with entries, and
\* the click after it ended on the unsupported type, which does not touch
\* the button.
C21_Witness ==
  /\ pc = "unsupported"
  /\ result # pending
  /\ result.total > 0
  /\ statsError
  /\ ~statsContent
  /\ ~loadBtnDisabled

=============================================================================
